---- MODULE Spec2Model ----
(***************************************************************************)
(* PollyXT -> SCC conversion (pollyxt_pipelines/polly_to_scc/scc_netcdf.py) *)
(* The generator convert_pollyxt_file, the two record builders and the      *)
(* calibration period arithmetic, as a state machine.                       *)
(***************************************************************************)
EXTENDS Integers, Sequences, FiniteSets, TLC

VARIABLES
    measurement_start,  \* pollyxt.get_measurement_period(input_path)[0]
    measurement_end,    \* pollyxt.get_measurement_period(input_path)[1]
    interval,           \* timedelta argument of convert_pollyxt_file
    should_round,       \* argument should_round
    calibration,        \* argument calibration
    location,           \* argument location
    pc,                 \* position of the generator (or of a direct builder call)
    interval_start,     \* local of convert_pollyxt_file
    interval_end,       \* local of convert_pollyxt_file
    period,             \* index of the for loop over CALIBRATION_PERIODS
    files,              \* the files of output_path: path -> content
    open_handles,       \* paths whose Dataset was opened and never closed
    out,                \* the elements the generator has yielded (first MaxOut)
    windows,            \* the (start, end) handed to PollyXTFile (first MaxOut)
    raised,             \* the exception that left the generator or the builder
    args,               \* arguments of a direct create_scc_calibration_netcdf call
    pair                \* two planner runs on the same input (rounded / plain)

vars == <<measurement_start, measurement_end, interval, should_round, calibration,
          location, pc, interval_start, interval_end, period, files, open_handles,
          out, windows, raised, args, pair>>

inputs == <<measurement_start, measurement_end, interval, should_round, calibration,
            location>>

----------------------------------------------------------------------------
(* Bounds of the model *)

\* ticks per second: the sub-second resolution of a datetime (10^6 in Python)
SubPerSec == 2
\* how many yielded elements / opened windows the observation keeps
MaxOut == 30
\* how many windows of each run the two-run comparison keeps
MaxPair == 10

----------------------------------------------------------------------------
(* datetime / timedelta arithmetic, in ticks since 2021-01-01T00:00:00 *)

Second == SubPerSec
Minute == 60 * Second
Hour == 60 * Minute
Day == 24 * Hour

DT(d, h, m, s, us) == d * Day + h * Hour + m * Minute + s * Second + us
timedelta(hours, minutes) == hours * Hour + minutes * Minute

DayOf(t) == t \div Day
HourOf(t) == (t % Day) \div Hour
MinuteOf(t) == (t % Hour) \div Minute
SecondOf(t) == (t % Minute) \div Second
MicroOf(t) == t % Second

\* datetime.replace(hour=h, minute=m, second=s): the sub-second part is kept
ReplaceHourMinuteSecond(t, h, m, s) == DT(DayOf(t), h, m, s, MicroOf(t))
\* datetime.replace(hour=h, minute=m): seconds and the sub-second part are kept
ReplaceHourMinute(t, h, m) == DT(DayOf(t), h, m, SecondOf(t), MicroOf(t))
\* datetime.replace(microsecond=us, second=s, minute=m)
ReplaceMicrosecondSecondMinute(t, us, s, m) == DT(DayOf(t), HourOf(t), m, s, us)

\* two decimal digits, zero padded
TwoDigits(n) == IF n < 10 THEN "0" \o ToString(n) ELSE ToString(n)
\* strftime('%Y%m%d'), for the days of January 2021
StrfDate(t) == ToString(20210101 + DayOf(t))
\* strftime('%H')
StrfHour(t) == TwoDigits(HourOf(t))
\* strftime('%H%M%S')
StrfTime(t) == TwoDigits(HourOf(t)) \o TwoDigits(MinuteOf(t)) \o TwoDigits(SecondOf(t))

----------------------------------------------------------------------------
(* str.split and int() *)

DigitValue(c) == CHOOSE d \in 0..9 : ToString(d) = c

RECURSIVE ParseInt(_)
ParseInt(s) ==
    IF Len(s) = 0 THEN 0
    ELSE 10 * ParseInt(SubSeq(s, 1, Len(s) - 1)) + DigitValue(SubSeq(s, Len(s), Len(s)))

\* s.split(sep) for a string holding sep exactly once
Split(s, sep) ==
    LET i == CHOOSE k \in 1..Len(s) :
                 /\ SubSeq(s, k, k) = sep
                 /\ \A j \in 1..(k - 1) : SubSeq(s, j, j) # sep
    IN <<SubSeq(s, 1, i - 1), SubSeq(s, i + 1, Len(s))>>

----------------------------------------------------------------------------
(* scc_netcdf.py: constants *)

NM_355 == 355
NM_532 == 532
Wavelength == {NM_355, NM_532}

CALIBRATION_PERIODS == <<"02:31-02:41", "17:31-17:41", "21:31-21:41">>

calibration_to_datetime(base, p) ==
    LET base0 == ReplaceHourMinuteSecond(base, 0, 0, 0)
        halves == Split(p, "-")
        start == Split(halves[1], ":")
        end == Split(halves[2], ":")
    IN <<base0 + timedelta(ParseInt(start[1]), ParseInt(start[2])),
         base0 + timedelta(ParseInt(end[1]), ParseInt(end[2]))>>

----------------------------------------------------------------------------
(* The raw source view: the window's own start and end, and its profiles *)

PollyXTFile(start, end, n) == [start_date |-> start, end_date |-> end, profiles |-> n]

\* Path / name
PathJoin(dir, name) == dir \o "/" \o name

output_path == "out"

----------------------------------------------------------------------------
(* create_scc_netcdf *)

\* the end hour taken from the start of the view
MeasurementIdStartHourTwice(pf, loc) ==
    StrfDate(pf.start_date) \o loc.scc_code \o StrfHour(pf.start_date)
        \o StrfHour(pf.start_date)

MeasurementId(pf, loc) ==
    StrfDate(pf.start_date) \o loc.scc_code \o StrfHour(pf.start_date)
        \o StrfHour(pf.end_date)

ConfigurationId(pf, loc) ==
    IF /\ ReplaceHourMinute(pf.start_date, 4, 0) < pf.start_date
       /\ pf.start_date < ReplaceHourMinute(pf.start_date, 16, 0)
    THEN loc.system_id_day
    ELSE loc.system_id_night

create_scc_netcdf(pf, dir, loc) ==
    LET measurement_id == MeasurementId(pf, loc)
        output_filename == PathJoin(dir, measurement_id \o ".nc")
    IN [outcome |-> "return",
        id |-> measurement_id,
        path |-> output_filename,
        content |-> [kind |-> "standard",
                     Measurement_ID |-> measurement_id,
                     RawData_Start_Date |-> StrfDate(pf.start_date),
                     RawData_Start_Time_UT |-> StrfTime(pf.start_date),
                     RawData_Stop_Time_UT |-> StrfTime(pf.end_date),
                     Configuration_ID |-> ConfigurationId(pf, loc),
                     closed |-> TRUE]]

----------------------------------------------------------------------------
(* create_scc_calibration_netcdf *)

start_first_measurement == 0
stop_first_measurement == 12

\* the profile offsets read from pf.raw_signal_swap
CalibrationOffsets ==
    {start_first_measurement, start_first_measurement + 1, start_first_measurement + 2,
     stop_first_measurement, stop_first_measurement + 1, stop_first_measurement + 2}

CalibrationSuffix(wavelength) ==
    IF wavelength = NM_355 THEN "35" ELSE "53"

create_scc_calibration_netcdf(pf, dir, loc, wavelength) ==
    LET measurement_id == StrfDate(pf.start_date) \o loc.scc_code \o StrfHour(pf.start_date)
        output_filename == PathJoin(dir, "calibration_" \o measurement_id \o ".nc")
        \* the file as Dataset(output_filename, 'w') and the attribute writes leave it
        opened == [kind |-> "calibration",
                   Measurement_ID |-> "",
                   RawData_Start_Date |-> StrfDate(pf.start_date),
                   RawData_Start_Time_UT |-> StrfTime(pf.start_date),
                   RawData_Stop_Time_UT |-> StrfTime(pf.end_date),
                   Configuration_ID |-> "",
                   closed |-> FALSE]
        named == [opened EXCEPT !.Measurement_ID =
                      measurement_id \o CalibrationSuffix(wavelength)]
    IN IF wavelength \notin Wavelength
       THEN [outcome |-> "ValueError", id |-> measurement_id, path |-> output_filename,
             content |-> opened]
       ELSE IF \E o \in CalibrationOffsets : o >= pf.profiles
       THEN [outcome |-> "IndexError", id |-> measurement_id, path |-> output_filename,
             content |-> named]
       ELSE [outcome |-> "return", id |-> measurement_id, path |-> output_filename,
             content |-> [named EXCEPT !.closed = TRUE]]

----------------------------------------------------------------------------
(* The effect of a builder call on the output directory *)

WriteFile(fs, r) ==
    [p \in (DOMAIN fs) \cup {r.path} |-> IF p = r.path THEN r.content ELSE fs[p]]

HandlesAfter(hs, r) ==
    IF r.content.closed THEN hs \ {r.path} ELSE hs \cup {r.path}

\* the observation keeps the first MaxOut entries
Observe(seq, e) == IF Len(seq) < MaxOut THEN Append(seq, e) ELSE seq

----------------------------------------------------------------------------
(* convert_pollyxt_file: the interval loop *)

\* rounding to the next full hour instead of the last one
RoundUp(t) ==
    IF t % Hour = 0 THEN t ELSE ReplaceMicrosecondSecondMinute(t, 0, 0, 0) + Hour

RoundDown(t) == ReplaceMicrosecondSecondMinute(t, 0, 0, 0)

\* the start of the window of this iteration
WindowStart(cursor, round) == IF round THEN RoundDown(cursor) ELSE cursor

IntervalEnd(start, length) == start + length

\* the next interval starting one minute after the end of this one
NextIntervalStartGap(end) == end + Minute

\* "Set start of next interval to the end of this one"
NextIntervalStart(end) == end

\* the driver building the 355 nm calibration
DriverWavelength355 == NM_355

\* the wavelength the driver passes to the calibration builder
DriverWavelength == NM_532

----------------------------------------------------------------------------
(* Inputs of a run *)

MeasurementStarts ==
    {DT(0, 0, 0, 0, 0), DT(0, 0, 0, 0, 1), DT(0, 1, 2, 0, 0), DT(0, 2, 31, 0, 0),
     DT(0, 4, 0, 30, 0), DT(0, 21, 0, 0, 0)}

MeasurementEnds ==
    {DT(0, 0, 10, 0, 0), DT(0, 0, 40, 0, 0), DT(0, 2, 41, 0, 0), DT(0, 2, 41, 0, 1),
     DT(0, 6, 0, 0, 0), DT(0, 23, 59, 0, 0), DT(1, 3, 0, 0, 0)}

Intervals == {timedelta(0, 20), timedelta(0, 30), timedelta(1, 0), timedelta(1, 30),
              timedelta(2, 0)}

Locations ==
    {[scc_code |-> "ny", system_id_day |-> "ny_day", system_id_night |-> "ny_night"],
     [scc_code |-> "at", system_id_day |-> "at_day", system_id_night |-> "at_night"]}

\* how many profiles the source holds inside a window
ProfileCounts == {0, stop_first_measurement + 2, stop_first_measurement + 3, 20}

NoArgs == [pf |-> PollyXTFile(0, 0, 0), wavelength |-> NM_532]
NoPair == [rounded |-> 0, plain |-> 0, wins_rounded |-> <<>>, wins_plain |-> <<>>]

----------------------------------------------------------------------------
(* convert_pollyxt_file as a generator *)

Init ==
    /\ measurement_start \in MeasurementStarts
    /\ measurement_end \in MeasurementEnds
    /\ measurement_start < measurement_end
    /\ interval \in Intervals
    /\ should_round \in BOOLEAN
    /\ calibration \in BOOLEAN
    /\ location \in Locations
    /\ pc = "loop"
    /\ interval_start = measurement_start
    /\ interval_end = measurement_start
    /\ period = 1
    /\ files = <<>>
    /\ open_handles = {}
    /\ out = <<>>
    /\ windows = <<>>
    /\ raised = "none"
    /\ args = NoArgs
    /\ pair = NoPair

\* one iteration of the while loop, up to its yield; a view without profiles
\* makes the reader fail (EmptyWindowError) for a standard window
LoopBody ==
    /\ pc = "loop"
    /\ interval_start < measurement_end
    /\ \E n \in ProfileCounts, s \in {WindowStart(interval_start, should_round)} :
        \E e \in {IntervalEnd(s, interval)} :
        \E r \in {create_scc_netcdf(PollyXTFile(s, e, n), output_path, location)} :
           /\ interval_start' = s
           /\ interval_end' = e
           /\ windows' = Observe(windows, [kind |-> "standard", start |-> s, end |-> e])
           /\ IF n = 0
              THEN /\ raised' = "EmptyWindowError"
                   /\ pc' = "raised"
                   /\ UNCHANGED <<files, open_handles, out>>
              ELSE /\ files' = WriteFile(files, r)
                   /\ open_handles' = HandlesAfter(open_handles, r)
                   /\ out' = Observe(out, [kind |-> "standard", id |-> r.id,
                                           path |-> r.path, start |-> s, end |-> e,
                                           period |-> 0, wavelength |-> 0,
                                           config |-> r.content.Configuration_ID])
                   /\ pc' = "yield_standard"
                   /\ UNCHANGED raised
    /\ UNCHANGED <<inputs, period, args, pair>>

\* the caller asks for the next element: line 331, back to the loop test
LoopResume ==
    /\ pc = "yield_standard"
    /\ interval_start' = NextIntervalStart(interval_end)
    /\ pc' = "loop"
    /\ UNCHANGED <<inputs, interval_end, period, files, open_handles, out, windows,
                   raised, args, pair>>

\* the loop test fails
LoopExit ==
    /\ pc = "loop"
    /\ ~(interval_start < measurement_end)
    /\ pc' = IF calibration THEN "calibration" ELSE "done"
    /\ UNCHANGED <<inputs, interval_start, interval_end, period, files, open_handles,
                   out, windows, raised, args, pair>>

\* the test of line 342
PeriodIncluded(p) ==
    LET se == calibration_to_datetime(measurement_start, p)
    IN se[1] > measurement_start /\ se[2] < measurement_end

CalibrationBuild ==
    /\ pc = "calibration"
    /\ period <= Len(CALIBRATION_PERIODS)
    /\ PeriodIncluded(CALIBRATION_PERIODS[period])
    /\ \E n \in ProfileCounts,
          se \in {calibration_to_datetime(measurement_start, CALIBRATION_PERIODS[period])} :
        \E r \in {create_scc_calibration_netcdf(PollyXTFile(se[1], se[2], n), output_path,
                                                location, DriverWavelength)} :
           /\ windows' = Observe(windows, [kind |-> "calibration", start |-> se[1],
                                           end |-> se[2]])
           /\ files' = WriteFile(files, r)
           /\ open_handles' = HandlesAfter(open_handles, r)
           /\ IF r.outcome = "return"
              THEN /\ out' = Observe(out, [kind |-> "calibration", id |-> r.id,
                                           path |-> r.path, start |-> se[1],
                                           end |-> se[2], period |-> period,
                                           wavelength |-> DriverWavelength,
                                           config |-> r.content.Configuration_ID])
                   /\ pc' = "yield_calibration"
                   /\ UNCHANGED raised
              ELSE /\ raised' = r.outcome
                   /\ pc' = "raised"
                   /\ UNCHANGED out
    /\ UNCHANGED <<inputs, interval_start, interval_end, period, args, pair>>

CalibrationSkip ==
    /\ pc = "calibration"
    /\ period <= Len(CALIBRATION_PERIODS)
    /\ ~PeriodIncluded(CALIBRATION_PERIODS[period])
    /\ period' = period + 1
    /\ UNCHANGED <<inputs, pc, interval_start, interval_end, files, open_handles, out,
                   windows, raised, args, pair>>

CalibrationResume ==
    /\ pc = "yield_calibration"
    /\ period' = period + 1
    /\ pc' = "calibration"
    /\ UNCHANGED <<inputs, interval_start, interval_end, files, open_handles, out,
                   windows, raised, args, pair>>

CalibrationExit ==
    /\ pc = "calibration"
    /\ period > Len(CALIBRATION_PERIODS)
    /\ pc' = "done"
    /\ UNCHANGED <<inputs, interval_start, interval_end, period, files, open_handles,
                   out, windows, raised, args, pair>>

Next ==
    \/ LoopBody
    \/ LoopResume
    \/ LoopExit
    \/ CalibrationBuild
    \/ CalibrationSkip
    \/ CalibrationResume
    \/ CalibrationExit

Spec == Init /\ [][Next]_vars

\* a caller that keeps consuming the generator, on part of the inputs
InitFair ==
    /\ Init
    /\ measurement_start \in {DT(0, 0, 0, 0, 0), DT(0, 1, 2, 0, 0)}
    /\ measurement_end \in {DT(0, 0, 40, 0, 0), DT(0, 6, 0, 0, 0)}
    /\ location.scc_code = "ny"

FairSpec == InitFair /\ [][Next]_vars /\ WF_vars(Next)

----------------------------------------------------------------------------
(* A direct call of create_scc_calibration_netcdf *)

CalibrationViews ==
    {PollyXTFile(DT(0, h, 31, 0, 0), DT(0, h, 41, 0, 0), n) :
        h \in {2, 17, 21}, n \in ProfileCounts}

\* values a caller can pass as the wavelength
WavelengthArguments == Wavelength \cup {0, 1064}

InitCal ==
    /\ args \in [pf : CalibrationViews, wavelength : WavelengthArguments]
    /\ location \in Locations
    /\ measurement_start = args.pf.start_date
    /\ measurement_end = args.pf.end_date
    /\ interval = timedelta(1, 0)
    /\ should_round = FALSE
    /\ calibration = TRUE
    /\ pc = "call"
    /\ interval_start = measurement_start
    /\ interval_end = measurement_start
    /\ period = 1
    /\ files = <<>>
    /\ open_handles = {}
    /\ out = <<>>
    /\ windows = <<>>
    /\ raised = "none"
    /\ pair = NoPair

CallCalibrationBuilder ==
    /\ pc = "call"
    /\ LET r == create_scc_calibration_netcdf(args.pf, output_path, location,
                                              args.wavelength)
       IN /\ files' = WriteFile(files, r)
          /\ open_handles' = HandlesAfter(open_handles, r)
          /\ IF r.outcome = "return"
             THEN /\ pc' = "returned"
                  /\ out' = <<[kind |-> "calibration", id |-> r.id, path |-> r.path]>>
                  /\ UNCHANGED raised
             ELSE /\ pc' = "raised"
                  /\ raised' = r.outcome
                  /\ UNCHANGED out
    /\ UNCHANGED <<inputs, interval_start, interval_end, period, windows, args, pair>>

NextCal == CallCalibrationBuilder

SpecCal == InitCal /\ [][NextCal]_vars

----------------------------------------------------------------------------
(* The interval loop run twice on one input: should_round = TRUE and FALSE *)

ObservePair(seq, e) == IF Len(seq) < MaxPair THEN Append(seq, e) ELSE seq

InitPair ==
    /\ measurement_start \in MeasurementStarts
    /\ measurement_end \in MeasurementEnds
    /\ measurement_start < measurement_end
    /\ interval \in Intervals
    /\ should_round = FALSE
    /\ calibration = FALSE
    /\ location \in {l \in Locations : l.scc_code = "ny"}
    /\ pc = "pair"
    /\ interval_start = measurement_start
    /\ interval_end = measurement_start
    /\ period = 1
    /\ files = <<>>
    /\ open_handles = {}
    /\ out = <<>>
    /\ windows = <<>>
    /\ raised = "none"
    /\ args = NoArgs
    /\ pair = [rounded |-> measurement_start, plain |-> measurement_start,
               wins_rounded |-> <<>>, wins_plain |-> <<>>]

PairStepRounded ==
    /\ pc = "pair"
    /\ pair.rounded < measurement_end
    /\ LET s == WindowStart(pair.rounded, TRUE)
           e == IntervalEnd(s, interval)
       IN pair' = [pair EXCEPT !.rounded = NextIntervalStart(e),
                               !.wins_rounded = ObservePair(@, [start |-> s, end |-> e])]
    /\ UNCHANGED <<inputs, pc, interval_start, interval_end, period, files,
                   open_handles, out, windows, raised, args>>

PairStepPlain ==
    /\ pc = "pair"
    /\ pair.plain < measurement_end
    /\ LET s == WindowStart(pair.plain, FALSE)
           e == IntervalEnd(s, interval)
       IN pair' = [pair EXCEPT !.plain = NextIntervalStart(e),
                               !.wins_plain = ObservePair(@, [start |-> s, end |-> e])]
    /\ UNCHANGED <<inputs, pc, interval_start, interval_end, period, files,
                   open_handles, out, windows, raised, args>>

NextPair ==
    \/ PairStepRounded
    \/ PairStepPlain

SpecPair == InitPair /\ [][NextPair]_vars

----------------------------------------------------------------------------
(* Observations the properties are stated on *)

IsStandard(o) == o.kind = "standard"
IsCalibration(o) == o.kind = "calibration"

\* the standard elements yielded so far, in order
StandardOut == SelectSeq(out, IsStandard)
CalibrationOut == SelectSeq(out, IsCalibration)
\* the calibration windows opened so far, in order
CalibrationWindows == SelectSeq(windows, IsCalibration)

\* every yielded element and every opened window has been recorded
Recorded == Len(out) < MaxOut /\ Len(windows) < MaxOut

\* the while loop has been left through its test
LoopExited ==
    \/ pc \in {"calibration", "yield_calibration", "done"}
    \/ pc = "raised" /\ raised # "EmptyWindowError"

\* every instant of [a, b) lies in a window of seq: were one uncovered, the
\* least uncovered one would be a itself or the end of a window
Covers(seq, a, b) ==
    \A t \in {a} \cup {seq[k].end : k \in 1..Len(seq)} :
        (a <= t /\ t < b) =>
            \E k \in 1..Len(seq) : seq[k].start <= t /\ t < seq[k].end

WholeHours(length) == length % Hour = 0

----------------------------------------------------------------------------
(* C1 *)

\* C1 as claimed, of the windows of a run whose loop has ended: for either
\* value of round_down they have strictly increasing starts, do not overlap,
\* leave no gap and cover [measurement_start, measurement_end); without
\* round_down the first starts at measurement_start, each next one at the
\* previous end, and each is interval_length long.
C1_Original ==
    LET w == StandardOut
    IN (LoopExited /\ Recorded) =>
        /\ \A k \in 1..(Len(w) - 1) :
            /\ w[k + 1].start > w[k].start
            /\ w[k + 1].start >= w[k].end
            /\ w[k + 1].start <= w[k].end
        /\ Covers(w, measurement_start, measurement_end)
        /\ ~should_round =>
            /\ Len(w) >= 1 => w[1].start = measurement_start
            /\ \A k \in 1..(Len(w) - 1) : w[k + 1].start = w[k].end
            /\ \A k \in 1..Len(w) : w[k].end - w[k].start = interval

\* C1 amended, of the windows emitted so far at any moment of a run: without
\* round_down everything claimed holds. With round_down
\* starts never decrease (they increase strictly when interval_length is at
\* least one hour), no gap separates consecutive windows (each start is at most
\* the previous end), they do not overlap when interval_length is a whole
\* number of hours, and once the loop has ended [measurement_start,
\* measurement_end) is covered.
C1_Windows ==
    LET w == StandardOut
    IN /\ \A k \in 1..(Len(w) - 1) :
            /\ w[k + 1].start >= w[k].start
            /\ w[k + 1].start <= w[k].end
            /\ (~should_round \/ interval >= Hour) => w[k + 1].start > w[k].start
            /\ (~should_round \/ WholeHours(interval)) => w[k + 1].start >= w[k].end
       /\ (LoopExited /\ Recorded) => Covers(w, measurement_start, measurement_end)
       /\ ~should_round =>
            /\ Len(w) >= 1 => w[1].start = measurement_start
            /\ \A k \in 1..(Len(w) - 1) : w[k + 1].start = w[k].end
            /\ \A k \in 1..Len(w) : w[k].end - w[k].start = interval

\* C1 witness: a finished rounded run of 90 minute windows, the second overlapping the first
C1_Witness ==
    /\ pc = "done"
    /\ should_round
    /\ interval = timedelta(1, 30)
    /\ Len(StandardOut) >= 3
    /\ StandardOut[2].start < StandardOut[1].end

----------------------------------------------------------------------------
(* C2 *)

\* C2: for every input the interval loop is left and the generator ends, when
\* the caller keeps consuming it.
C2_Terminates == <>(pc \in {"done", "raised"})

----------------------------------------------------------------------------
(* C3 *)

\* C3: standard elements all come before calibration elements, standard
\* elements in the order of their window starts, calibration elements in the
\* order of the periods 02:31, 17:31, 21:31 and built with wavelength 532; with
\* calibration off no calibration element is yielded and no calibration file
\* is written.
C3_Sequencing ==
    /\ \A i, j \in 1..Len(out) :
        i < j =>
            /\ IsCalibration(out[i]) => IsCalibration(out[j])
            /\ (IsStandard(out[i]) /\ IsStandard(out[j])) => out[i].start <= out[j].start
            /\ (IsCalibration(out[i]) /\ IsCalibration(out[j])) =>
                    out[i].period < out[j].period
    /\ \A i \in 1..Len(out) :
        IsCalibration(out[i]) =>
            /\ out[i].wavelength = 532
            /\ files[out[i].path].Measurement_ID = out[i].id \o "53"
            /\ <<HourOf(out[i].start), MinuteOf(out[i].start)>>
                   = <<<<2, 31>>, <<17, 31>>, <<21, 31>>>>[out[i].period]
    /\ ~calibration =>
        /\ \A i \in 1..Len(out) : IsStandard(out[i])
        /\ \A p \in DOMAIN files : files[p].kind = "standard"

\* C3 witness: a finished run that yielded standard elements and then two calibration ones
C3_Witness ==
    /\ pc = "done"
    /\ Len(StandardOut) >= 2
    /\ Len(CalibrationOut) >= 2
    /\ Recorded

----------------------------------------------------------------------------
(* C4 *)

\* the three periods on the day of t, from 00:00:00 with no sub-second part
ClaimedPeriods(t) ==
    <<[kind |-> "calibration", start |-> DT(DayOf(t), 2, 31, 0, 0),
       end |-> DT(DayOf(t), 2, 41, 0, 0)],
      [kind |-> "calibration", start |-> DT(DayOf(t), 17, 31, 0, 0),
       end |-> DT(DayOf(t), 17, 41, 0, 0)],
      [kind |-> "calibration", start |-> DT(DayOf(t), 21, 31, 0, 0),
       end |-> DT(DayOf(t), 21, 41, 0, 0)]>>

StrictlyInside(w) == w.start > measurement_start /\ w.end < measurement_end

\* C4: the calibration windows the driver processes are exactly the periods
\* 02:31-02:41, 17:31-17:41, 21:31-21:41 of the day of measurement_start
\* (counted from 00:00:00.0) that lie strictly inside the measurement.
C4_CalibrationWindows ==
    (pc = "done" /\ calibration /\ Recorded) =>
        CalibrationWindows = SelectSeq(ClaimedPeriods(measurement_start), StrictlyInside)

----------------------------------------------------------------------------
(* C5 *)

\* C5: two distinct standard windows of one run never get the same identifier
\* nor the same output path.
C5_UniqueIdentifiers ==
    \A i, j \in 1..Len(StandardOut) :
        <<StandardOut[i].start, StandardOut[i].end>>
            # <<StandardOut[j].start, StandardOut[j].end>>
        => /\ StandardOut[i].id # StandardOut[j].id
           /\ StandardOut[i].path # StandardOut[j].path

----------------------------------------------------------------------------
(* C6 *)

\* C6: the configuration id written is the day one exactly when the window's
\* start is strictly after 04:00:00 and strictly before 16:00:00 of its day,
\* and the night one otherwise.
C6_DayNight ==
    \A k \in 1..Len(StandardOut) :
        LET o == StandardOut[k]
            day == /\ DT(DayOf(o.start), 4, 0, 0, 0) < o.start
                   /\ o.start < DT(DayOf(o.start), 16, 0, 0, 0)
        IN o.config = IF day THEN location.system_id_day ELSE location.system_id_night

----------------------------------------------------------------------------
(* C7 *)

\* C7: a call with a wavelength other than 355 and 532 fails with the invalid
\* wavelength error, leaves no handle open and no file in output_path.
C7_RejectsCleanly ==
    (pc # "call" /\ args.wavelength \notin {355, 532}) =>
        /\ pc = "raised"
        /\ raised = "ValueError"
        /\ open_handles = {}
        /\ DOMAIN files = {}

----------------------------------------------------------------------------
(* C8 *)

\* C8: a calibration period whose view holds fewer than 15 profiles is
\* skipped: no error leaves the generator and no calibration file is left for it.
C8_SkipsShortPeriod ==
    /\ raised # "IndexError"
    /\ \A p \in DOMAIN files : files[p].closed

----------------------------------------------------------------------------
(* C9 *)

\* C9: wherever both runs emit a k-th window, the one of the round_down run
\* does not start later than the one of the plain run.
C9_RoundedNotLater ==
    \A k \in 1..Len(pair.wins_rounded) :
        k <= Len(pair.wins_plain) =>
            pair.wins_rounded[k].start <= pair.wins_plain[k].start

\* C9 witness: both runs have emitted three windows and the third ones differ
C9_Witness ==
    /\ Len(pair.wins_rounded) >= 3
    /\ Len(pair.wins_plain) >= 3
    /\ pair.wins_rounded[3].start < pair.wins_plain[3].start

----------------------------------------------------------------------------
(* C10 *)

Scenario ==
    /\ measurement_start = DT(0, 0, 0, 0, 0)
    /\ measurement_end = DT(0, 23, 59, 0, 0)
    /\ interval = timedelta(1, 0)
    /\ ~should_round
    /\ location.scc_code = "ny"

ScenarioWindows ==
    LET w == StandardOut
    IN /\ Len(w) = 24
       /\ \A k \in 1..Len(w) : w[k].end - w[k].start = Hour
       /\ SubSeq(w[1].id, 1, 12) = "20210101ny00"

\* C10 as claimed: 24 one hour windows, the first identifier beginning with
\* 20210101ny00, the end hour of the last identifier being 23.
C10_Original ==
    (Scenario /\ LoopExited) =>
        /\ ScenarioWindows
        /\ SubSeq(StandardOut[Len(StandardOut)].id, 13, 14) = "23"

\* C10 amended: 24 one hour windows, the first identifier beginning with
\* 20210101ny00, and the last identifier is 20210101ny2300: its window ends at
\* 00:00 of the next day, so its end hour is 00.
C10_Scenario ==
    (Scenario /\ LoopExited) =>
        /\ ScenarioWindows
        /\ StandardOut[Len(StandardOut)].id = "20210101ny2300"
        /\ SubSeq(StandardOut[Len(StandardOut)].id, 13, 14) = "00"

\* C10 witness: the scenario run has ended with its 24 windows yielded
C10_Witness ==
    /\ Scenario
    /\ pc = "done"
    /\ Len(StandardOut) = 24

====
